---- MODULE Spec2Model ----
(***************************************************************************)
(* Model of the handle-based storage layer: the inline single-block        *)
(* backend (src/storage/inline_single_storage.rs) and the unique handle    *)
(* built on the typed handle (src/extension/unique.rs).                    *)
(***************************************************************************)
EXTENDS Integers, Sequences, FiniteSets, TLC

\* ------------------------------------------------------------------------
\* Bounds
\* ------------------------------------------------------------------------
\* largest size of a requested layout
MaxSize == 4
\* largest value a byte of the slot takes (bytes range over 0..MaxByte)
MaxByte == 1
\* largest element count asked of a slice handle
MaxLen == 3
\* the count of raw handles the client holds saturates here
MaxHeld == 2

\* alignments of the requested layouts (powers of two)
Aligns == {1, 2, 4}

\* core::alloc::Layout values handed to the backend
Layouts == [size : 0 .. MaxSize, align : Aligns]

\* Layout::new::<T>() for the T the backend is instantiated with:
\* (), u16, [u8; 3]
SlotTypes ==
    { [size |-> 0, align |-> 1],
      [size |-> 2, align |-> 2],
      [size |-> 3, align |-> 1] }

\* Layout::new::<U>() of the element type U of a slice handle: u8, u16
ElemTypes ==
    { [size |-> 1, align |-> 1],
      [size |-> 2, align |-> 2] }

Bytes == 0 .. MaxByte

VARIABLES
    own,               \* Layout::new::<T>() of the slot
    mem,               \* bytes of the slot, offset -> byte, and at offset
                       \* own.size the byte that follows the slot
    addr,              \* address of the slot (self.0.get())
    debug_assertions,  \* whether the build keeps debug_assert!
    held,              \* raw handles the client holds (allocated, not released)
    uh,                \* the client's unique handle
    last               \* the last call made and what it returned

vars == <<own, mem, addr, debug_assertions, held, uh, last>>

\* ------------------------------------------------------------------------
\* InlineSingleStorage
\* ------------------------------------------------------------------------

\* InlineSingleStorage::validate_layout with `<` for `<=` on the size
validate_layout_strict(layout) ==
    IF layout.align <= own.align /\ layout.size < own.size
    THEN "Ok" ELSE "AllocError"

\* InlineSingleStorage::validate_layout
validate_layout(layout) ==
    IF layout.align <= own.align /\ layout.size <= own.size
    THEN "Ok" ELSE "AllocError"

\* ptr::write_bytes(pointer + off, val, count) on the slot
write_bytes(m, off, val, count) ==
    [i \in DOMAIN m |-> IF off <= i /\ i < off + count THEN val ELSE m[i]]

\* InlineSingleStorage::allocate refusing a request while a handle is out
allocate_occupied(layout) ==
    [res |-> IF held > 0 THEN "AllocError" ELSE validate_layout(layout),
     handle |-> "unit", mem |-> mem]

\* InlineSingleStorage::allocate
allocate(layout) ==
    [res |-> validate_layout(layout), handle |-> "unit", mem |-> mem]

\* InlineSingleStorage::deallocate
deallocate(handle, layout) ==
    [res |-> "Ok", handle |-> "unit", mem |-> mem]

\* InlineSingleStorage::resolve returning null while no handle is out
resolve_checked(handle) == IF held > 0 THEN addr ELSE 0

\* InlineSingleStorage::resolve
resolve(handle) == addr

\* InlineSingleStorage::grow validating the old layout for the new one
grow_validates_old(handle, old_layout, new_layout) ==
    IF debug_assertions /\ ~(new_layout.size >= old_layout.size)
    THEN [res |-> "panic", handle |-> "unit", mem |-> mem]
    ELSE [res |-> validate_layout(old_layout), handle |-> "unit", mem |-> mem]

\* InlineSingleStorage::grow
grow(handle, old_layout, new_layout) ==
    IF debug_assertions /\ ~(new_layout.size >= old_layout.size)
    THEN [res |-> "panic", handle |-> "unit", mem |-> mem]
    ELSE [res |-> validate_layout(new_layout), handle |-> "unit", mem |-> mem]

\* InlineSingleStorage::shrink
shrink(handle, old_layout, new_layout) ==
    IF debug_assertions /\ ~(new_layout.size >= old_layout.size)
    THEN [res |-> "panic", handle |-> "unit", mem |-> mem]
    ELSE [res |-> "Ok", handle |-> "unit", mem |-> mem]

\* InlineSingleStorage::allocate_zeroed clearing the whole slot
allocate_zeroed_whole(layout) ==
    IF validate_layout(layout) = "Ok"
    THEN [res |-> "Ok", handle |-> "unit",
          mem |-> write_bytes(mem, 0, 0, own.size)]
    ELSE [res |-> "AllocError", handle |-> "unit", mem |-> mem]

\* InlineSingleStorage::allocate_zeroed writing before the fit check
allocate_zeroed_unchecked(layout) ==
    [res |-> validate_layout(layout), handle |-> "unit",
     mem |-> write_bytes(mem, 0, 0, layout.size)]

\* InlineSingleStorage::allocate_zeroed
allocate_zeroed(layout) ==
    IF validate_layout(layout) = "Ok"
    THEN [res |-> "Ok", handle |-> "unit",
          mem |-> write_bytes(mem, 0, 0, layout.size)]
    ELSE [res |-> "AllocError", handle |-> "unit", mem |-> mem]

\* InlineSingleStorage::grow_zeroed clearing from the start of the slot
grow_zeroed_from_start(handle, old_layout, new_layout) ==
    IF debug_assertions /\ ~(new_layout.size >= old_layout.size)
    THEN [res |-> "panic", handle |-> "unit", mem |-> mem]
    ELSE IF validate_layout(new_layout) = "Ok"
    THEN [res |-> "Ok", handle |-> "unit",
          mem |-> write_bytes(mem, 0, 0, new_layout.size)]
    ELSE [res |-> "AllocError", handle |-> "unit", mem |-> mem]

\* InlineSingleStorage::grow_zeroed
grow_zeroed(handle, old_layout, new_layout) ==
    IF debug_assertions /\ ~(new_layout.size >= old_layout.size)
    THEN [res |-> "panic", handle |-> "unit", mem |-> mem]
    ELSE IF validate_layout(new_layout) = "Ok"
    THEN [res |-> "Ok",
          handle |-> "unit", mem |-> write_bytes(mem, old_layout.size, 0,
                              new_layout.size - old_layout.size)]
    ELSE [res |-> "AllocError", handle |-> "unit", mem |-> mem]

\* ------------------------------------------------------------------------
\* State machine
\* ------------------------------------------------------------------------

UnitLayout == [size |-> 0, align |-> 1]

\* the client holds no handle
NoHandle ==
    [ty |-> [kind |-> "none", n |-> 0, elem |-> UnitLayout],
     handle |-> "unit",
     metadata |-> [tag |-> "unit", val |-> 0, align |-> 1]]

\* a call, the backend call it made, the layouts and element count it was
\* given, its result and the address it returned
Call(op, call, old, new, res, ret) ==
    [op |-> op, call |-> call, old |-> old, new |-> new, res |-> res,
     ret |-> ret, arg |-> 0]

\* the process has not aborted: no assertion failed (panic) and no
\* infallible variant escalated an allocation failure (abort)
Running == last.res \notin {"panic", "abort"}

\* the layouts a live handle of this backend can have been allocated with
\* (the safety contract of deallocate, grow, shrink: the handle is valid)
LiveLayouts ==
    {l \in Layouts : l.align <= own.align /\ l.size <= own.size}

Acquire(res) == IF res = "Ok" /\ held < MaxHeld THEN held + 1 ELSE held

\* offsets of the bytes of the slot
SlotOffsets == 0 .. own.size - 1

\* InlineSingleStorage::default: the slot starts uninitialized, so its
\* bytes hold arbitrary values; it lies at a non-null address aligned as T.
\* The byte that follows the slot belongs to something else and is not zero.
Init ==
    /\ own \in SlotTypes
    /\ \E m \in [SlotOffsets -> Bytes] :
         mem = [i \in 0 .. own.size |-> IF i < own.size THEN m[i]
                                                       ELSE MaxByte]
    /\ addr = 8 * own.align
    /\ debug_assertions \in BOOLEAN
    /\ held = 0
    /\ uh = NoHandle
    /\ last = Call("default", "none", UnitLayout, UnitLayout, "Ok", 0)

Allocate ==
    /\ Running
    /\ \E layout \in Layouts :
         LET r == allocate(layout) IN
         /\ mem' = r.mem
         /\ held' = Acquire(r.res)
         /\ last' = Call("allocate", "allocate", layout, layout, r.res, 0)
    /\ UNCHANGED <<own, addr, debug_assertions, uh>>

AllocateZeroed ==
    /\ Running
    /\ \E layout \in Layouts :
         LET r == allocate_zeroed(layout) IN
         /\ mem' = r.mem
         /\ held' = Acquire(r.res)
         /\ last' = Call("allocate_zeroed", "allocate_zeroed", layout, layout,
                         r.res, 0)
    /\ UNCHANGED <<own, addr, debug_assertions, uh>>

Deallocate ==
    /\ Running
    /\ held > 0
    /\ \E layout \in LiveLayouts :
         LET r == deallocate("unit", layout) IN
         /\ mem' = r.mem
         /\ held' = held - 1
         /\ last' = Call("deallocate", "deallocate", layout, layout, r.res, 0)
    /\ UNCHANGED <<own, addr, debug_assertions, uh>>

Resolve ==
    /\ Running
    /\ last' = Call("resolve", "resolve", UnitLayout, UnitLayout, "Ok",
                    resolve("unit"))
    /\ UNCHANGED <<own, mem, addr, debug_assertions, held, uh>>

\* the client stores a byte through the pointer resolve returned
ResolveWrite ==
    /\ Running
    /\ \E off \in SlotOffsets, val \in Bytes :
         /\ mem' = [mem EXCEPT ![off] = val]
         /\ last' = Call("write", "resolve", UnitLayout, UnitLayout, "Ok",
                         resolve("unit") + off)
    /\ UNCHANGED <<own, addr, debug_assertions, held, uh>>

Grow ==
    /\ Running
    /\ held > 0
    /\ \E old_layout \in LiveLayouts, new_layout \in Layouts :
         LET r == grow("unit", old_layout, new_layout) IN
         /\ mem' = r.mem
         /\ last' = Call("grow", "grow", old_layout, new_layout, r.res, 0)
    /\ UNCHANGED <<own, addr, debug_assertions, held, uh>>

\* safety contract of shrink: new_layout.size <= old_layout.size
Shrink ==
    /\ Running
    /\ held > 0
    /\ \E old_layout \in LiveLayouts, new_layout \in Layouts :
         /\ new_layout.size <= old_layout.size
         /\ LET r == shrink("unit", old_layout, new_layout) IN
            /\ mem' = r.mem
            /\ last' = Call("shrink", "shrink", old_layout, new_layout,
                            r.res, 0)
    /\ UNCHANGED <<own, addr, debug_assertions, held, uh>>

\* safety contract of grow_zeroed: new_layout.size >= old_layout.size
GrowZeroed ==
    /\ Running
    /\ held > 0
    /\ \E old_layout \in LiveLayouts, new_layout \in Layouts :
         /\ new_layout.size >= old_layout.size
         /\ LET r == grow_zeroed("unit", old_layout, new_layout) IN
            /\ mem' = r.mem
            /\ last' = Call("grow_zeroed", "grow_zeroed", old_layout,
                            new_layout, r.res, 0)
    /\ UNCHANGED <<own, addr, debug_assertions, held, uh>>

Next ==
    \/ Allocate
    \/ AllocateZeroed
    \/ Deallocate
    \/ Resolve
    \/ ResolveWrite
    \/ Grow
    \/ Shrink
    \/ GrowZeroed

Spec == Init /\ [][Next]_vars

\* ------------------------------------------------------------------------
\* Properties of the inline single-block backend
\* ------------------------------------------------------------------------

\* C1: allocate(layout) and allocate_zeroed(layout) succeed iff
\* layout.align <= slot.align and layout.size <= slot.size, and return
\* AllocationFailed in every other case.
FitInvariant ==
    last.op \in {"allocate", "allocate_zeroed"} =>
        /\ last.res \in {"Ok", "AllocError"}
        /\ last.res = "Ok" <=>
             (last.new.align <= own.align /\ last.new.size <= own.size)

\* an allocate of exactly the slot's layout has succeeded
FitWitness ==
    /\ last.op = "allocate"
    /\ last.res = "Ok"
    /\ own.size > 0
    /\ last.new = own

\* C2: shrink(handle, old_layout, new_layout) with
\* new_layout.size <= old_layout.size always returns a handle: it neither
\* reports failure nor aborts on an assertion.
ShrinkAlwaysSucceeds ==
    (last.op = "shrink" /\ last.new.size <= last.old.size) =>
        last.res = "Ok"

\* C3: grow(h, L1, L2) with L2.size >= L1.size succeeds iff L2 fits the
\* slot, and resolve returns the same address after the grow as before it,
\* whether the grow succeeded or failed.
GrowMonotonicity ==
    [][(last'.op = "grow" /\ last'.new.size >= last'.old.size) =>
          /\ last'.res \in {"Ok", "AllocError"}
          /\ last'.res = "Ok" <=>
               (last'.new.align <= own.align /\ last'.new.size <= own.size)
          /\ resolve("unit")' = resolve("unit")]_vars

\* a grow to exactly the slot's size has succeeded
GrowWitness ==
    /\ last.op = "grow"
    /\ last.res = "Ok"
    /\ last.old.size < last.new.size
    /\ last.new.size = own.size

\* C4: after a successful allocate_zeroed(layout) the first layout.size
\* bytes of the slot are zero and the bytes at offsets >= layout.size keep
\* the value they had before the call.
AllocateZeroedFrame ==
    [][(last'.op = "allocate_zeroed" /\ last'.res = "Ok") =>
          /\ DOMAIN mem' = DOMAIN mem
          /\ \A i \in DOMAIN mem :
               IF i < last'.new.size THEN mem'[i] = 0 ELSE mem'[i] = mem[i]
      ]_vars

\* an allocate_zeroed of part of the slot has left a non-zero byte after it
AllocateZeroedWitness ==
    /\ last.op = "allocate_zeroed"
    /\ last.res = "Ok"
    /\ 0 < last.new.size
    /\ last.new.size < own.size
    /\ mem[own.size - 1] # 0

\* C5: after a successful grow_zeroed(h, old, new) with old fitting the slot
\* and new.size >= old.size, the bytes at offsets in [old.size, new.size)
\* are zero, the bytes at offsets in [0, old.size) keep their value, and
\* when new.size = old.size no byte changes.
GrowZeroedFrame ==
    [][(/\ last'.op = "grow_zeroed"
        /\ last'.res = "Ok"
        /\ last'.old.size <= own.size
        /\ last'.old.align <= own.align
        /\ last'.new.size >= last'.old.size) =>
          /\ DOMAIN mem' = DOMAIN mem
          /\ \A i \in DOMAIN mem :
               /\ (last'.old.size <= i /\ i < last'.new.size) => mem'[i] = 0
               /\ i < last'.old.size => mem'[i] = mem[i]
          /\ last'.new.size = last'.old.size => mem' = mem
      ]_vars

\* a grow_zeroed has extended a block whose first byte is not zero
GrowZeroedWitness ==
    /\ last.op = "grow_zeroed"
    /\ last.res = "Ok"
    /\ 0 < last.old.size
    /\ last.old.size < last.new.size
    /\ mem[0] # 0
    /\ mem[last.old.size] = 0

\* C6: the backend tracks no occupancy: deallocate changes nothing, and
\* after any sequence of calls an allocate with a layout that fits the slot
\* succeeds, whether or not a handle is still out.
NoOccupancy ==
    [][/\ last'.op = "deallocate" =>
            (mem' = mem /\ own' = own /\ addr' = addr)
       /\ (/\ last'.op = "allocate"
           /\ last'.new.align <= own.align
           /\ last'.new.size <= own.size) => last'.res = "Ok"
      ]_vars

\* an allocate has succeeded while the client still held two handles
NoOccupancyWitness ==
    /\ last.op = "allocate"
    /\ last.res = "Ok"
    /\ held = MaxHeld

\* ------------------------------------------------------------------------
\* TypedHandle over the backend (extension/typed.rs, interface)
\* ------------------------------------------------------------------------

\* the layout of `size` elements: size x element layout
Layout_array(e, size) == [size |-> e.size * size, align |-> e.align]

UnitMetadata == [tag |-> "unit", val |-> 0, align |-> 1]

\* TypedMetadata<[U]>: an element count
SliceMetadata(size) == [tag |-> "count", val |-> size, align |-> 1]

\* TypedMetadata<dyn Trait>: the dispatch descriptor of a concrete type
DynMetadata(layout) ==
    [tag |-> "vtable", val |-> layout.size, align |-> layout.align]

SliceType(e) == [kind |-> "slice", n |-> 0, elem |-> e]
ArrayType(e, n) == [kind |-> "array", n |-> n, elem |-> e]
DynType == [kind |-> "dyn", n |-> 0, elem |-> UnitLayout]

\* the layout of the block a handle names, derived from type and metadata
TypedHandle_layout(h) ==
    CASE h.ty.kind = "slice" -> Layout_array(h.ty.elem, h.metadata.val)
      [] h.ty.kind = "array" -> Layout_array(h.ty.elem, h.ty.n)
      [] h.ty.kind = "dyn" ->
            [size |-> h.metadata.val, align |-> h.metadata.align]
      [] OTHER -> UnitLayout

Outcome(res, call, old, new, m, h) ==
    [res |-> res, call |-> call, old |-> old, new |-> new, mem |-> m,
     h |-> h]

TypedHandle_from_raw_parts(T, handle, metadata) ==
    [ty |-> T, handle |-> handle, metadata |-> metadata]

TypedHandle_to_raw_parts(h) == <<h.handle, h.metadata>>

\* TypedHandle::try_allocate for T = [U; n]
TypedHandle_try_allocate(T) ==
    LET layout == Layout_array(T.elem, T.n)
        r == allocate(layout)
    IN  Outcome(r.res, "allocate", layout, layout, r.mem,
                IF r.res = "Ok"
                THEN TypedHandle_from_raw_parts(T, r.handle, UnitMetadata)
                ELSE NoHandle)

TypedHandle_try_allocate_slice(e, size) ==
    LET layout == Layout_array(e, size)
        r == allocate(layout)
    IN  Outcome(r.res, "allocate", layout, layout, r.mem,
                IF r.res = "Ok"
                THEN TypedHandle_from_raw_parts(SliceType(e), r.handle,
                                                SliceMetadata(size))
                ELSE NoHandle)

TypedHandle_try_allocate_zeroed_slice(e, size) ==
    LET layout == Layout_array(e, size)
        r == allocate_zeroed(layout)
    IN  Outcome(r.res, "allocate_zeroed", layout, layout, r.mem,
                IF r.res = "Ok"
                THEN TypedHandle_from_raw_parts(SliceType(e), r.handle,
                                                SliceMetadata(size))
                ELSE NoHandle)

TypedHandle_deallocate(h) ==
    LET layout == TypedHandle_layout(h)
        r == deallocate(h.handle, layout)
    IN  Outcome(r.res, "deallocate", layout, layout, r.mem, NoHandle)

TypedHandle_resolve_raw(h) == resolve(h.handle)

\* TypedHandle::coerce: [U; n] to [U] or to dyn Trait; recomputes metadata
TypedHandle_coerce(h, U) ==
    LET layout == TypedHandle_layout(h)
        coerced ==
            IF U = "slice"
            THEN TypedHandle_from_raw_parts(SliceType(h.ty.elem), h.handle,
                                            SliceMetadata(h.ty.n))
            ELSE TypedHandle_from_raw_parts(DynType, h.handle,
                                            DynMetadata(layout))
    IN  Outcome("Ok", "none", layout, layout, mem, coerced)

TypedHandle_len(h) == h.metadata.val

TypedHandle_is_empty(h) == h.metadata.val = 0

\* the metadata follows the element count only when the backend succeeds
Resized(h, r, new_size) ==
    IF r.res = "Ok"
    THEN TypedHandle_from_raw_parts(h.ty, r.handle, SliceMetadata(new_size))
    ELSE h

TypedHandle_try_grow(h, new_size) ==
    LET old_layout == Layout_array(h.ty.elem, TypedHandle_len(h))
        new_layout == Layout_array(h.ty.elem, new_size)
        r == grow(h.handle, old_layout, new_layout)
    IN  Outcome(r.res, "grow", old_layout, new_layout, r.mem,
                Resized(h, r, new_size))

TypedHandle_try_grow_zeroed(h, new_size) ==
    LET old_layout == Layout_array(h.ty.elem, TypedHandle_len(h))
        new_layout == Layout_array(h.ty.elem, new_size)
        r == grow_zeroed(h.handle, old_layout, new_layout)
    IN  Outcome(r.res, "grow_zeroed", old_layout, new_layout, r.mem,
                Resized(h, r, new_size))

TypedHandle_try_shrink(h, new_size) ==
    LET old_layout == Layout_array(h.ty.elem, TypedHandle_len(h))
        new_layout == Layout_array(h.ty.elem, new_size)
        r == shrink(h.handle, old_layout, new_layout)
    IN  Outcome(r.res, "shrink", old_layout, new_layout, r.mem,
                Resized(h, r, new_size))

\* the infallible variants call handle_alloc_error on failure
Escalate(r) ==
    IF r.res = "AllocError" THEN [r EXCEPT !.res = "abort"] ELSE r

TypedHandle_allocate_slice(e, size) ==
    Escalate(TypedHandle_try_allocate_slice(e, size))

TypedHandle_grow(h, new_size) == Escalate(TypedHandle_try_grow(h, new_size))

TypedHandle_grow_zeroed(h, new_size) ==
    Escalate(TypedHandle_try_grow_zeroed(h, new_size))

TypedHandle_shrink(h, new_size) ==
    Escalate(TypedHandle_try_shrink(h, new_size))

\* ------------------------------------------------------------------------
\* UniqueHandle
\* ------------------------------------------------------------------------

\* UniqueHandle::from_raw_parts dropping the metadata it is given
UniqueHandle_from_raw_parts_default(T, handle, metadata) ==
    TypedHandle_from_raw_parts(T, handle, UnitMetadata)

UniqueHandle_from_raw_parts(T, handle, metadata) ==
    TypedHandle_from_raw_parts(T, handle, metadata)

UniqueHandle_to_raw_parts(h) == TypedHandle_to_raw_parts(h)

UniqueHandle_try_allocate(T) == TypedHandle_try_allocate(T)

UniqueHandle_deallocate(h) == TypedHandle_deallocate(h)

UniqueHandle_resolve_raw(h) == TypedHandle_resolve_raw(h)

\* UniqueHandle::coerce allocating a fresh zeroed block for the result
UniqueHandle_coerce_realloc(h, U) ==
    LET c == TypedHandle_coerce(h, U)
        r == allocate_zeroed(c.new)
    IN  Outcome(r.res, "allocate_zeroed", c.old, c.new, r.mem, c.h)

UniqueHandle_coerce(h, U) == TypedHandle_coerce(h, U)

UniqueHandle_allocate_slice(e, size) == TypedHandle_allocate_slice(e, size)

UniqueHandle_try_allocate_slice(e, size) ==
    TypedHandle_try_allocate_slice(e, size)

UniqueHandle_try_allocate_zeroed_slice(e, size) ==
    TypedHandle_try_allocate_zeroed_slice(e, size)

UniqueHandle_is_empty(h) == TypedHandle_is_empty(h)

UniqueHandle_len(h) == TypedHandle_len(h)

UniqueHandle_grow(h, new_size) == TypedHandle_grow(h, new_size)

\* UniqueHandle::try_grow passing self.len() for new_size
UniqueHandle_try_grow_same(h, new_size) ==
    TypedHandle_try_grow(h, TypedHandle_len(h))

\* UniqueHandle::try_grow storing the new element count before the
\* backend has answered
UniqueHandle_try_grow_eager(h, new_size) ==
    LET r == TypedHandle_try_grow(h, new_size)
    IN  [r EXCEPT !.h = TypedHandle_from_raw_parts(h.ty, h.handle,
                                                   SliceMetadata(new_size))]

UniqueHandle_try_grow(h, new_size) == TypedHandle_try_grow(h, new_size)

UniqueHandle_grow_zeroed(h, new_size) == TypedHandle_grow_zeroed(h, new_size)

UniqueHandle_try_grow_zeroed(h, new_size) ==
    TypedHandle_try_grow_zeroed(h, new_size)

UniqueHandle_shrink(h, new_size) == TypedHandle_shrink(h, new_size)

UniqueHandle_try_shrink(h, new_size) == TypedHandle_try_shrink(h, new_size)

\* ------------------------------------------------------------------------
\* State machine of a client holding one unique handle
\* ------------------------------------------------------------------------

\* the client's step: the handle operation `op`, asked for `arg` elements,
\* had outcome r
HandleStep(op, arg, r) ==
    /\ mem' = r.mem
    /\ uh' = r.h
    /\ last' = [Call(op, r.call, r.old, r.new, r.res, 0) EXCEPT !.arg = arg]
    /\ UNCHANGED <<own, addr, debug_assertions, held>>

Holding(kind) == Running /\ uh.ty.kind = kind

HandleTryAllocate ==
    /\ Holding("none")
    /\ \E e \in ElemTypes, n \in 0 .. MaxLen :
         HandleStep("try_allocate", n,
                    UniqueHandle_try_allocate(ArrayType(e, n)))

HandleAllocateSlice ==
    /\ Holding("none")
    /\ \E e \in ElemTypes, size \in 0 .. MaxLen :
         HandleStep("allocate_slice", size,
                    UniqueHandle_allocate_slice(e, size))

HandleTryAllocateSlice ==
    /\ Holding("none")
    /\ \E e \in ElemTypes, size \in 0 .. MaxLen :
         HandleStep("try_allocate_slice", size,
                    UniqueHandle_try_allocate_slice(e, size))

HandleTryAllocateZeroedSlice ==
    /\ Holding("none")
    /\ \E e \in ElemTypes, size \in 0 .. MaxLen :
         HandleStep("try_allocate_zeroed_slice", size,
                    UniqueHandle_try_allocate_zeroed_slice(e, size))

HandleDeallocate ==
    /\ Running
    /\ uh.ty.kind # "none"
    /\ HandleStep("deallocate", 0, UniqueHandle_deallocate(uh))

HandleResolveRaw ==
    /\ Running
    /\ uh.ty.kind # "none"
    /\ last' = Call("resolve_raw", "resolve", UnitLayout, UnitLayout, "Ok",
                    UniqueHandle_resolve_raw(uh))
    /\ UNCHANGED <<own, mem, addr, debug_assertions, held, uh>>

\* the client decomposes its handle and rebuilds it from the parts
HandleRoundTrip ==
    /\ Running
    /\ uh.ty.kind # "none"
    /\ LET parts == UniqueHandle_to_raw_parts(uh)
           layout == TypedHandle_layout(uh)
       IN  HandleStep("from_raw_parts", 0,
                      Outcome("Ok", "none", layout, layout, mem,
                              UniqueHandle_from_raw_parts(uh.ty, parts[1],
                                                          parts[2])))

HandleCoerce ==
    /\ Holding("array")
    /\ \E U \in {"slice", "dyn"} :
         HandleStep("coerce", 0, UniqueHandle_coerce(uh, U))

\* safety contract of grow: new_size >= self.len()
HandleGrow ==
    /\ Holding("slice")
    /\ \E new_size \in UniqueHandle_len(uh) .. MaxLen :
         HandleStep("grow", new_size, UniqueHandle_grow(uh, new_size))

HandleTryGrow ==
    /\ Holding("slice")
    /\ \E new_size \in UniqueHandle_len(uh) .. MaxLen :
         HandleStep("try_grow", new_size, UniqueHandle_try_grow(uh, new_size))

HandleGrowZeroed ==
    /\ Holding("slice")
    /\ \E new_size \in UniqueHandle_len(uh) .. MaxLen :
         HandleStep("grow_zeroed", new_size,
                    UniqueHandle_grow_zeroed(uh, new_size))

HandleTryGrowZeroed ==
    /\ Holding("slice")
    /\ \E new_size \in UniqueHandle_len(uh) .. MaxLen :
         HandleStep("try_grow_zeroed", new_size,
                    UniqueHandle_try_grow_zeroed(uh, new_size))

\* safety contract of shrink: new_size <= self.len()
HandleShrink ==
    /\ Holding("slice")
    /\ \E new_size \in 0 .. UniqueHandle_len(uh) :
         HandleStep("shrink", new_size, UniqueHandle_shrink(uh, new_size))

HandleTryShrink ==
    /\ Holding("slice")
    /\ \E new_size \in 0 .. UniqueHandle_len(uh) :
         HandleStep("try_shrink", new_size,
                    UniqueHandle_try_shrink(uh, new_size))

NextHandle ==
    \/ HandleTryAllocate
    \/ HandleAllocateSlice
    \/ HandleTryAllocateSlice
    \/ HandleTryAllocateZeroedSlice
    \/ HandleDeallocate
    \/ HandleResolveRaw
    \/ HandleRoundTrip
    \/ HandleCoerce
    \/ HandleGrow
    \/ HandleTryGrow
    \/ HandleGrowZeroed
    \/ HandleTryGrowZeroed
    \/ HandleShrink
    \/ HandleTryShrink
    \/ ResolveWrite

SpecHandle == Init /\ [][NextHandle]_vars

\* ------------------------------------------------------------------------
\* Properties of the unique handle
\* ------------------------------------------------------------------------

\* C7: a slice handle created by allocate_slice(n) or a successful
\* try_allocate_slice(n) has len() = n and is_empty() = (n = 0); after a
\* successful grow / try_grow to m >= n, len() = m; after a successful
\* shrink / try_shrink to k <= len(), len() = k.
SliceMetadataConsistency ==
    /\ (last.op \in {"allocate_slice", "try_allocate_slice"}
            /\ last.res = "Ok") =>
          /\ UniqueHandle_len(uh) = last.arg
          /\ UniqueHandle_is_empty(uh) <=> (last.arg = 0)
    /\ (last.op \in {"grow", "try_grow"} /\ last.res = "Ok"
            /\ last.new.size >= last.old.size) =>
          UniqueHandle_len(uh) = last.arg
    /\ (last.op \in {"shrink", "try_shrink"} /\ last.res = "Ok"
            /\ last.new.size <= last.old.size) =>
          UniqueHandle_len(uh) = last.arg

\* a try_grow of a non-empty slice handle to more elements has succeeded
SliceGrownWitness ==
    /\ last.op = "try_grow"
    /\ last.res = "Ok"
    /\ 0 < last.old.size
    /\ last.old.size < last.new.size
    /\ UniqueHandle_len(uh) > 1

\* C8: when try_grow, try_grow_zeroed or try_shrink returns
\* AllocationFailed, len() and the raw handle are what they were before the
\* call, and the handle still names a block of its old layout.
FailedResizeKeepsHandle ==
    [][(last'.op \in {"try_grow", "try_grow_zeroed", "try_shrink"}
            /\ last'.res = "AllocError") =>
          /\ UniqueHandle_len(uh)' = UniqueHandle_len(uh)
          /\ uh'.handle = uh.handle
          /\ uh' = uh
          /\ TypedHandle_layout(uh)' = last'.old
      ]_vars

\* a try_grow of a non-empty slice handle past the slot's capacity failed
FailedGrowWitness ==
    /\ last.op = "try_grow"
    /\ last.res = "AllocError"
    /\ last.new.size > own.size
    /\ UniqueHandle_len(uh) > 0

\* C9: from_raw_parts applied to the pair to_raw_parts returned gives a
\* handle with the same raw handle and the same metadata, which resolves to
\* the address the original resolved to.
RawPartsRoundTrip ==
    [][last'.op = "from_raw_parts" =>
          /\ uh'.handle = uh.handle
          /\ uh'.metadata = uh.metadata
          /\ UniqueHandle_resolve_raw(uh)' = UniqueHandle_resolve_raw(uh)
      ]_vars

\* a slice handle of two or more elements has been taken apart and rebuilt
RoundTripWitness ==
    /\ last.op = "from_raw_parts"
    /\ uh.ty.kind = "slice"
    /\ UniqueHandle_len(uh) > 1

\* C10: coerce makes no backend call and leaves the store as it was; the
\* coerced handle has the raw handle of the original, only its metadata
\* differs.
CoercionIdentity ==
    [][last'.op = "coerce" =>
          /\ last'.call = "none"
          /\ mem' = mem
          /\ own' = own
          /\ addr' = addr
          /\ UniqueHandle_to_raw_parts(uh)'[1] =
                UniqueHandle_to_raw_parts(uh)[1]
      ]_vars

\* an array handle over a slot holding a non-zero byte has been coerced to
\* a slice handle
CoercionWitness ==
    /\ last.op = "coerce"
    /\ uh.ty.kind = "slice"
    /\ UniqueHandle_len(uh) > 0
    /\ \E i \in SlotOffsets : mem[i] # 0

\* ------------------------------------------------------------------------
\* Further properties of the inline single-block backend
\* ------------------------------------------------------------------------

\* C11: resolve returns the slot's address unconditionally: before any
\* allocation, after a failed allocation, after deallocate, after any grow
\* or shrink it returns the same non-null address, so every handle issued by
\* the backend resolves to that address.
ResolveUnconditional ==
    [][/\ resolve("unit")' = resolve("unit")
       /\ resolve("unit")' # 0
       /\ resolve("unit") # 0
       /\ last'.op = "resolve" => last'.ret = resolve("unit")
      ]_vars

\* resolve has been called while no handle was out
ResolveWitness ==
    /\ last.op = "resolve"
    /\ held = 0
    /\ last.ret = addr

\* C12: when allocate_zeroed or grow_zeroed returns AllocationFailed because
\* the requested layout does not fit the slot, every byte of the slot holds
\* the value it held before the call, and no zeroing call, failed or not,
\* writes the byte that follows the slot.
FailedZeroingWritesNothing ==
    [][last'.op \in {"allocate_zeroed", "grow_zeroed"} =>
          /\ DOMAIN mem' = DOMAIN mem
          /\ mem'[own.size] = mem[own.size]
          /\ last'.res = "AllocError" =>
               /\ ~(/\ last'.new.align <= own.align
                    /\ last'.new.size <= own.size)
               /\ mem' = mem
      ]_vars

\* an allocate_zeroed larger than the slot has failed over non-zero bytes
FailedZeroingWitness ==
    /\ last.op = "allocate_zeroed"
    /\ last.res = "AllocError"
    /\ last.new.size > own.size
    /\ last.new.align <= own.align
    /\ own.size > 0
    /\ \A i \in SlotOffsets : mem[i] # 0

====
